---- MODULE Spec2Model ----
(***************************************************************************)
(* Model of papis/format.py: the three Formater variants, the process-wide *)
(* cached selection (_FORMATER / get_formater) and the dispatch function   *)
(* format().                                                               *)
(*                                                                         *)
(* Representation.  A Python str (a template, a key, a field value, a      *)
(* rendered string while it is built) is the sequence of its characters,   *)
(* each a one-character string; the string a call returns and the message  *)
(* of an exception are TLA+ strings.  A Python value is tagged with its    *)
(* type.  A dict is the sequence of its items in insertion order.          *)
(*                                                                         *)
(* Extent.  The characters of a str are those of the table Chars: the      *)
(* codes 1 to 255 but 96.  The values of a document and of the additional  *)
(* bindings are strs, lists, dicts and None.  What a template reaches      *)
(* beyond the modelled part of the interpreter (an attribute of a type or  *)
(* of a bound method, a width of ten digits or more, an expression of the  *)
(* jinja2 language other than a chain of names with one call) gives the    *)
(* outcome "unknown", which is neither a string returned nor an exception  *)
(* raised; no statement below counts it as either.                         *)
(***************************************************************************)
EXTENDS Integers, Sequences, FiniteSets, TLC

(***************************************************************************)
(* Python values                                                           *)
(***************************************************************************)
PyStr(chars) == [ty |-> "str", v |-> chars]
\* an int: the index of a field name, held as its decimal digits without
\* leading zeros (the values of a document are strs, lists and dicts)
PyInt(digits) == [ty |-> "int", v |-> digits]
PyList(items) == [ty |-> "list", v |-> items]
PyDict(items) == [ty |-> "dict", v |-> items]
PyNone == [ty |-> "NoneType", v |-> <<>>]
\* getattr(obj, name) where name is a method or a slot of the type of obj:
\* kind is the type of the bound object, owner the type name it prints for
\* the object it is bound to, path tells which object that is
Bound(kind, name, owner, path) == [ty |-> kind, v |-> <<name, owner, path>>]
\* type(obj)
PyType(name) == [ty |-> "type", v |-> name]

\* the name type(value).__name__ prints in an error message
TypeName(val) == val.ty

\* "".join(s), the halves joined first to keep the evaluation shallow
RECURSIVE Join(_)
Join(s) ==
    IF s = <<>> THEN ""
    ELSE IF Len(s) = 1 THEN s[1]
    ELSE Join(SubSeq(s, 1, Len(s) \div 2)) \o Join(SubSeq(s, Len(s) \div 2 + 1, Len(s)))

\* the concatenation of a sequence of sequences
RECURSIVE Flatten(_)
Flatten(ss) ==
    IF ss = <<>> THEN <<>>
    ELSE IF Len(ss) = 1 THEN ss[1]
    ELSE Flatten(SubSeq(ss, 1, Len(ss) \div 2))
         \o Flatten(SubSeq(ss, Len(ss) \div 2 + 1, Len(ss)))

Range(s) == {s[i] : i \in DOMAIN s}

\* a dict: items in insertion order, no key twice
Item(k, v) == [k |-> k, v |-> v]
EmptyDict == <<>>
Keys(d) == {d[i].k : i \in DOMAIN d}
HasKey(d, k) == \E i \in DOMAIN d : d[i].k = k
Lookup(d, k) == d[CHOOSE i \in DOMAIN d : d[i].k = k].v

\* d[k] = v: a present key keeps its place, a new one goes last
SetItem(d, k, v) ==
    IF HasKey(d, k) THEN [i \in DOMAIN d |-> IF d[i].k = k THEN Item(k, v) ELSE d[i]]
    ELSE Append(d, Item(k, v))

\* del d[k]
DelItem(d, k) == SelectSeq(d, LAMBDA it : it.k # k)

\* a.update(b)
RECURSIVE DictUpdate(_, _)
DictUpdate(a, b) ==
    IF b = <<>> THEN a ELSE DictUpdate(SetItem(a, Head(b).k, Head(b).v), Tail(b))

\* Document(); fdoc.update(doc): a new Document holding the items of doc
DocumentCopy(doc) == [ty |-> "Document", v |-> DictUpdate(EmptyDict, doc)]

(***************************************************************************)
(* Outcomes of a call, and exceptions                                      *)
(***************************************************************************)
\* an exception: its class, its message, for a KeyError the key it was
\* raised with and, for the error of get_formater, the list of names it
\* carries as its second argument
NoExc == [type |-> "", arg |-> "", key |-> PyNone, names |-> {}]
Exc(type, arg) == [type |-> type, arg |-> arg, key |-> PyNone, names |-> {}]
KeyError(key) == [type |-> "KeyError", arg |-> "", key |-> key, names |-> {}]

\* The classes of the interpreter and its library that derive from
\* BaseException and not from Exception (CancelledError is that of asyncio)
BaseExceptions ==
    {"BaseException", "BaseExceptionGroup", "GeneratorExit", "KeyboardInterrupt",
     "SystemExit", "CancelledError"}

\* except Exception: whether the clause catches an exception of the class
IsException(e) == e.type \notin BaseExceptions

\* the result of evaluating an expression: a str or an exception
Ok(out) == [ok |-> TRUE, out |-> out, exc |-> NoExc]
Failure(e) == [ok |-> FALSE, out |-> <<>>, exc |-> e]
Err(type, arg) == Failure(Exc(type, arg))

\* the result of a lookup: a value or an exception
Found(val) == [ok |-> TRUE, val |-> val, exc |-> NoExc]
NotFound(e) == [ok |-> FALSE, val |-> PyNone, exc |-> e]

\* what a call does: it returns a string or it raises
Return(s) == [kind |-> "return", value |-> s, exc |-> NoExc]
Raise(e) == [kind |-> "raise", value |-> "", exc |-> e]

\* The evaluation reached a construct whose result this model does not
\* give: it stops there, and the call has the outcome Unknown, which is
\* neither a returned string nor a raised exception
NotModelled(what) == [type |-> "not modelled", arg |-> what, key |-> PyNone, names |-> {}]
Unknown(what) == [kind |-> "unknown", value |-> what, exc |-> NoExc]

(***************************************************************************)
(* Characters                                                              *)
(***************************************************************************)
DecimalDigits == <<"0", "1", "2", "3", "4", "5", "6", "7", "8", "9">>
HexDigits == DecimalDigits \o <<"a", "b", "c", "d", "e", "f">>
DigitValue(c) == (CHOOSE i \in DOMAIN DecimalDigits : DecimalDigits[i] = c) - 1

\* The characters with codes 0..255 in code order, 16 to a line.  The null
\* character and the grave accent, codes 0 and 96, are not written in a
\* string of this language: their places hold the empty string and no str
\* of the model contains them.
Chars ==
    <<"", "", "", "", "", "", "", "", "", "\t", "\n", "", "\f", "\r", "", "",
      "", "", "", "", "", "", "", "", "", "", "", "", "", "", "", "",
      " ", "!", "\"", "#", "$", "%", "&", "'", "(", ")", "*", "+", ",", "-", ".", "/",
      "0", "1", "2", "3", "4", "5", "6", "7", "8", "9", ":", ";", "<", "=", ">", "?",
      "@", "A", "B", "C", "D", "E", "F", "G", "H", "I", "J", "K", "L", "M", "N", "O",
      "P", "Q", "R", "S", "T", "U", "V", "W", "X", "Y", "Z", "[", "\\", "]", "^", "_",
      "", "a", "b", "c", "d", "e", "f", "g", "h", "i", "j", "k", "l", "m", "n", "o",
      "p", "q", "r", "s", "t", "u", "v", "w", "x", "y", "z", "{", "|", "}", "~", "",
      "", "", "", "", "", "", "", "", "", "", "", "", "", "", "", "",
      "", "", "", "", "", "", "", "", "", "", "", "", "", "", "", "",
      " ", "¡", "¢", "£", "¤", "¥", "¦", "§", "¨", "©", "ª", "«", "¬", "­", "®", "¯",
      "°", "±", "²", "³", "´", "µ", "¶", "·", "¸", "¹", "º", "»", "¼", "½", "¾", "¿",
      "À", "Á", "Â", "Ã", "Ä", "Å", "Æ", "Ç", "È", "É", "Ê", "Ë", "Ì", "Í", "Î", "Ï",
      "Ð", "Ñ", "Ò", "Ó", "Ô", "Õ", "Ö", "×", "Ø", "Ù", "Ú", "Û", "Ü", "Ý", "Þ", "ß",
      "à", "á", "â", "ã", "ä", "å", "æ", "ç", "è", "é", "ê", "ë", "ì", "í", "î", "ï",
      "ð", "ñ", "ò", "ó", "ô", "õ", "ö", "÷", "ø", "ù", "ú", "û", "ü", "ý", "þ", "ÿ">>

\* ord(c) for a character of the table
Ord(c) == (CHOOSE i \in DOMAIN Chars : Chars[i] = c) - 1

\* the code of a character in lower-case hexadecimal, as %x prints it
HexCode(c) ==
    LET Hex(n) == IF n < 16 THEN <<HexDigits[1 + n]>>
                  ELSE <<HexDigits[1 + (n \div 16)], HexDigits[1 + (n % 16)]>>
    IN Hex(Ord(c))

(***************************************************************************)
(* repr(), ascii() and str() of a value                                    *)
(***************************************************************************)
\* one character of a str inside its repr, between quotes of kind quote:
\* the quote and the backslash are escaped; tab, newline and return have
\* their letter; the characters that do not print (codes below 32, 127 to
\* 160 and 173) and, for ascii(), every code above 127 are written \xhh
ReprChar(c, quote, ascii_only) ==
    LET Hex(n) == <<"\\", "x", HexDigits[1 + (n \div 16)], HexDigits[1 + (n % 16)]>>
        Coded(n) ==
            IF n < 32 \/ n = 127 THEN Hex(n)
            ELSE IF n < 127 THEN <<c>>
            ELSE IF ascii_only \/ n <= 160 \/ n = 173 THEN Hex(n)
            ELSE <<c>>
    IN
    CASE c = "\\" -> <<"\\", "\\">>
      [] c = quote -> <<"\\", c>>
      [] c = "\t" -> <<"\\", "t">>
      [] c = "\n" -> <<"\\", "n">>
      [] c = "\r" -> <<"\\", "r">>
      [] OTHER -> Coded(Ord(c))

ReprChars(s, quote, ascii_only) ==
    Flatten([i \in DOMAIN s |-> ReprChar(s[i], quote, ascii_only)])

\* repr of a str: double quotes when it holds ' and no "
ReprStr(s, ascii_only) ==
    LET quote == IF "'" \in Range(s) /\ "\"" \notin Range(s) THEN "\"" ELSE "'"
    IN <<quote>> \o ReprChars(s, quote, ascii_only) \o <<quote>>

\* Where the interpreter has placed the objects a template prints the
\* address of: the object reached from the arguments by the keys and indexes
\* of path is at the address at.of lists for path.  The addresses are the
\* allocator's; of an object that at.of does not list the address is not
\* known, and what prints it is not modelled.
AddressOf(at, path) == Lookup(at.of, path)

\* whether at tells the address that repr(val) prints, if it prints one: a
\* method prints that of the object or type it is bound to
HasAddress(val, at) ==
    (\/ val.ty = "method-wrapper"
     \/ val.ty = "builtin_function_or_method" /\ Join(val.v[2]) # "module")
    => HasKey(at.of, val.v[3])

\* repr(val)
RECURSIVE Repr(_, _, _), ReprList(_, _, _), ReprItems(_, _, _)
Repr(val, at, ascii_only) ==
    CASE val.ty = "str" -> ReprStr(val.v, ascii_only)
      [] val.ty = "int" -> val.v
      [] val.ty = "NoneType" -> <<"N", "o", "n", "e">>
      [] val.ty = "list" -> <<"[">> \o ReprList(val.v, at, ascii_only) \o <<"]">>
      [] val.ty \in {"dict", "Document"} ->
           <<"{">> \o ReprItems(val.v, at, ascii_only) \o <<"}">>
      [] val.ty = "type" -> <<"<", "c", "l", "a", "s", "s", " ", "'">> \o val.v \o <<"'", ">">>
      [] val.ty = "method-wrapper" ->
           <<"<", "m", "e", "t", "h", "o", "d", "-", "w", "r", "a", "p", "p", "e", "r", " ", "'">>
           \o val.v[1] \o <<"'", " ", "o", "f", " ">> \o val.v[2]
           \o <<" ", "o", "b", "j", "e", "c", "t", " ", "a", "t", " ">>
           \o AddressOf(at, val.v[3]) \o <<">">>
      \* a function of a module
      [] val.ty = "builtin_function_or_method" /\ Join(val.v[2]) = "module" ->
           <<"<", "b", "u", "i", "l", "t", "-", "i", "n", " ", "f", "u", "n", "c", "t", "i", "o", "n", " ">>
           \o val.v[1] \o <<">">>
      \* a method bound to an object or to a type
      [] val.ty = "builtin_function_or_method" /\ Join(val.v[2]) # "module" ->
           <<"<", "b", "u", "i", "l", "t", "-", "i", "n", " ", "m", "e", "t", "h", "o", "d", " ">>
           \o val.v[1] \o <<" ", "o", "f", " ">> \o val.v[2]
           \o <<" ", "o", "b", "j", "e", "c", "t", " ", "a", "t", " ">>
           \o AddressOf(at, val.v[3]) \o <<">">>

\* the elements of a list, separated by ", "
ReprList(items, at, ascii_only) ==
    IF items = <<>> THEN <<>>
    ELSE Repr(Head(items), at, ascii_only)
         \o (IF Len(items) > 1 THEN <<",", " ">> ELSE <<>>)
         \o ReprList(Tail(items), at, ascii_only)

\* the items of a dict as key: value, separated by ", "
ReprItems(items, at, ascii_only) ==
    IF items = <<>> THEN <<>>
    ELSE ReprStr(Head(items).k, ascii_only) \o <<":", " ">>
         \o Repr(Head(items).v, at, ascii_only)
         \o (IF Len(items) > 1 THEN <<",", " ">> ELSE <<>>)
         \o ReprItems(Tail(items), at, ascii_only)

\* str(val) / format(val, ""): a str is itself, any other value prints its repr
StrOfValue(val, at) == IF val.ty = "str" THEN val.v ELSE Repr(val, at, FALSE)

\* no address is known
NoAddress == [of |-> <<>>]

\* str(exception): a KeyError prints the repr of its key, others their message
StrOfException(e) ==
    IF e.type = "KeyError" THEN Join(Repr(e.key, NoAddress, FALSE)) ELSE e.arg
(***************************************************************************)
(* str.format with keyword arguments, as CPython evaluates it: the         *)
(* template is read left to right, each replacement field is parsed,       *)
(* looked up, converted and formatted when it is reached.                  *)
(***************************************************************************)
\* the first index of s at or after i whose character is in set; Len(s) + 1
\* when there is none
Find(s, i, set) ==
    LET hits == {j \in i..Len(s) : s[j] \in set} IN
    IF hits = {} THEN Len(s) + 1 ELSE CHOOSE j \in hits : \A k \in hits : j <= k

\* the first index of s at or after i that is not a decimal digit
DigitsEnd(s, i) ==
    LET others == {j \in i..Len(s) : s[j] \notin Range(DecimalDigits)} IN
    IF others = {} THEN Len(s) + 1 ELSE CHOOSE j \in others : \A k \in others : j <= k

\* the digits of a number without its leading zeros
StripZeros(d) ==
    LET first == Find(d, 1, Range(d) \ {"0"}) IN
    IF d = <<>> THEN d
    ELSE IF first > Len(d) THEN <<"0">> ELSE SubSeq(d, first, Len(d))

\* PY_SSIZE_T_MAX, 2^63 - 1
SsizeMaxDigits ==
    <<"9", "2", "2", "3", "3", "7", "2", "0", "3", "6", "8", "5", "4", "7", "7",
      "5", "8", "0", "7">>

\* a > b for numbers of as many digits
RECURSIVE DigitsGreater(_, _)
DigitsGreater(a, b) ==
    IF a = <<>> THEN FALSE
    ELSE IF Head(a) # Head(b) THEN DigitValue(Head(a)) > DigitValue(Head(b))
    ELSE DigitsGreater(Tail(a), Tail(b))

\* the number does not fit Py_ssize_t
Overflows(d) ==
    LET Exceeds(n, max) == \/ Len(n) > Len(max)
                           \/ Len(n) = Len(max) /\ DigitsGreater(n, max)
    IN Exceeds(StripZeros(d), SsizeMaxDigits)

\* the value of a number of at most nine digits
RECURSIVE IntOf(_)
IntOf(d) ==
    IF d = <<>> THEN 0 ELSE IntOf(SubSeq(d, 1, Len(d) - 1)) * 10 + DigitValue(d[Len(d)])

\* the number, whatever zeros it starts with, is below n
InRange(d, n) ==
    LET Below(digits) == Len(digits) <= 9 /\ IntOf(digits) < n IN Below(StripZeros(d))

\* get_integer(name): a name made of decimal digits only is an integer; the
\* digits are read left to right and reading stops with an error once the
\* number read so far does not fit
GetInteger(s) ==
    LET Read(e) ==
            IF e > 1 /\ Overflows(SubSeq(s, 1, e - 1))
            THEN [err |-> TRUE, isint |-> FALSE, digits |-> <<>>]
            ELSE IF s = <<>> \/ e <= Len(s)
            THEN [err |-> FALSE, isint |-> FALSE, digits |-> <<>>]
            ELSE [err |-> FALSE, isint |-> TRUE, digits |-> StripZeros(s)]
    IN Read(DigitsEnd(s, 1))

TooManyDigits == Exc("ValueError", "Too many decimal digits in format string")

NotSubscriptable(obj) ==
    Exc("TypeError", "'" \o TypeName(obj) \o "' object is not subscriptable")

\* obj[name] for a name that is not an integer
GetItemStr(obj, name) ==
    CASE obj.ty \in {"dict", "Document"} ->
           IF HasKey(obj.v, name) THEN Found(Lookup(obj.v, name))
           ELSE NotFound(KeyError(PyStr(name)))
      [] obj.ty = "list" ->
           NotFound(Exc("TypeError", "list indices must be integers or slices, not str"))
      [] obj.ty = "str" ->
           NotFound(Exc("TypeError", "string indices must be integers, not 'str'"))
      [] obj.ty = "type" -> NotFound(NotModelled("item " \o Join(name) \o " of a type"))
      [] OTHER -> NotFound(NotSubscriptable(obj))

\* obj[index] for an integer index; the keys of a dict are strs, so an int
\* is never among them
GetItemIdx(obj, digits) ==
    CASE obj.ty \in {"dict", "Document"} -> NotFound(KeyError(PyInt(digits)))
      [] obj.ty = "list" ->
           IF InRange(digits, Len(obj.v)) THEN Found(obj.v[IntOf(digits) + 1])
           ELSE NotFound(Exc("IndexError", "list index out of range"))
      [] obj.ty = "str" ->
           IF InRange(digits, Len(obj.v)) THEN Found(PyStr(<<obj.v[IntOf(digits) + 1]>>))
           ELSE NotFound(Exc("IndexError", "string index out of range"))
      [] obj.ty = "type" -> NotFound(NotModelled("item " \o Join(digits) \o " of a type"))
      [] OTHER -> NotFound(NotSubscriptable(obj))

\* The attributes of the values, as CPython 3.11 gives them.  Document is
\* taken to add nothing to dict but its name (papis/document.py is not part
\* of the source).
\* the built-in methods bound to the object
Methods(ty) ==
    CASE ty \in {"dict", "Document"} ->
           {"__contains__", "__dir__", "__format__", "__getitem__", "__getstate__",
            "__reduce__", "__reduce_ex__", "__reversed__", "__sizeof__", "clear",
            "copy", "get", "items", "keys", "pop", "popitem", "setdefault", "update",
            "values"}
      [] ty = "str" ->
           {"__dir__", "__format__", "__getnewargs__", "__getstate__", "__reduce__",
            "__reduce_ex__", "__sizeof__", "capitalize", "casefold", "center", "count",
            "encode", "endswith", "expandtabs", "find", "format", "format_map", "index",
            "isalnum", "isalpha", "isascii", "isdecimal", "isdigit", "isidentifier",
            "islower", "isnumeric", "isprintable", "isspace", "istitle", "isupper",
            "join", "ljust", "lower", "lstrip", "partition", "removeprefix",
            "removesuffix", "replace", "rfind", "rindex", "rjust", "rpartition",
            "rsplit", "rstrip", "split", "splitlines", "startswith", "strip",
            "swapcase", "title", "translate", "upper", "zfill"}
      [] ty = "list" ->
           {"__dir__", "__format__", "__getitem__", "__getstate__", "__reduce__",
            "__reduce_ex__", "__reversed__", "__sizeof__", "append", "clear", "copy",
            "count", "extend", "index", "insert", "pop", "remove", "reverse", "sort"}
      [] ty = "NoneType" ->
           {"__dir__", "__format__", "__getstate__", "__reduce__", "__reduce_ex__",
            "__sizeof__"}
      [] OTHER -> {}

\* the slots of the type, bound to the object
MethodWrappers(ty) ==
    CASE ty \in {"dict", "Document"} ->
           {"__delattr__", "__delitem__", "__eq__", "__ge__", "__getattribute__",
            "__gt__", "__init__", "__ior__", "__iter__", "__le__", "__len__", "__lt__",
            "__ne__", "__or__", "__repr__", "__ror__", "__setattr__", "__setitem__",
            "__str__"}
      [] ty = "str" ->
           {"__add__", "__contains__", "__delattr__", "__eq__", "__ge__",
            "__getattribute__", "__getitem__", "__gt__", "__hash__", "__init__",
            "__iter__", "__le__", "__len__", "__lt__", "__mod__", "__mul__", "__ne__",
            "__repr__", "__rmod__", "__rmul__", "__setattr__", "__str__"}
      [] ty = "list" ->
           {"__add__", "__contains__", "__delattr__", "__delitem__", "__eq__", "__ge__",
            "__getattribute__", "__gt__", "__iadd__", "__imul__", "__init__",
            "__iter__", "__le__", "__len__", "__lt__", "__mul__", "__ne__", "__repr__",
            "__rmul__", "__setattr__", "__setitem__", "__str__"}
      [] ty = "NoneType" ->
           {"__bool__", "__delattr__", "__eq__", "__ge__", "__getattribute__", "__gt__",
            "__hash__", "__init__", "__le__", "__lt__", "__ne__", "__repr__",
            "__setattr__", "__str__"}
      [] OTHER -> {}

\* the built-in methods bound to the type of the object
TypeMethods(ty) ==
    CASE ty \in {"dict", "Document"} ->
           {"__class_getitem__", "__init_subclass__", "__new__", "__subclasshook__",
            "fromkeys"}
      [] ty = "str" ->
           {"__init_subclass__", "__new__", "__subclasshook__", "maketrans"}
      [] ty = "list" ->
           {"__class_getitem__", "__init_subclass__", "__new__", "__subclasshook__"}
      [] ty = "NoneType" ->
           {"__init_subclass__", "__new__", "__subclasshook__"}
      [] OTHER -> {}

\* type(obj).__name__ as characters
TypeChars(ty) ==
    CASE ty = "Document" -> <<"D", "o", "c", "u", "m", "e", "n", "t">>
      [] ty = "dict" -> <<"d", "i", "c", "t">>
      [] ty = "list" -> <<"l", "i", "s", "t">>
      [] ty = "str" -> <<"s", "t", "r">>
      [] ty = "NoneType" -> <<"N", "o", "n", "e", "T", "y", "p", "e">>
      [] ty = "int" -> <<"i", "n", "t">>
      [] ty = "type" -> <<"t", "y", "p", "e">>
      [] ty = "builtin_function_or_method" ->
           <<"b", "u", "i", "l", "t", "i", "n", "_", "f", "u", "n", "c", "t", "i", "o", "n",
             "_", "o", "r", "_", "m", "e", "t", "h", "o", "d">>
      [] ty = "method-wrapper" ->
           <<"m", "e", "t", "h", "o", "d", "-", "w", "r", "a", "p", "p", "e", "r">>
      [] ty = "function" -> <<"f", "u", "n", "c", "t", "i", "o", "n">>
      [] ty = "module" -> <<"m", "o", "d", "u", "l", "e">>

\* __name__: a special attribute
IsDunder(name) ==
    /\ Len(name) > 4
    /\ name[1] = "_" /\ name[2] = "_"
    /\ name[Len(name) - 1] = "_" /\ name[Len(name)] = "_"

\* getattr(obj, name), obj being the object at path.  The attributes of a
\* type and of an int, the special attributes of a method and the
\* attributes that hold what the class statement of Document says are not
\* modelled.
GetAttr(obj, name, path) ==
    LET n == Join(name)
        NoAttribute ==
            NotFound(Exc("AttributeError",
                         "'" \o TypeName(obj) \o "' object has no attribute '" \o n \o "'"))
        \* a type is one object for the whole process: its place is named by
        \* the empty argument name, which no field can refer to
        TypePath(ty) == <<<<>>, TypeChars(ty)>>
        Module == IF obj.ty = "Document"
                  THEN <<"p", "a", "p", "i", "s", ".", "d", "o", "c", "u", "m", "e", "n", "t", ".">>
                  ELSE <<>>
    IN
    CASE obj.ty \in {"type", "int"} ->
           NotFound(NotModelled("attribute " \o n \o " of a " \o obj.ty))
      [] obj.ty \in {"builtin_function_or_method", "method-wrapper"} ->
           IF IsDunder(name)
           THEN NotFound(NotModelled("attribute " \o n \o " of a method"))
           ELSE NoAttribute
      [] n = "__class__" -> Found(PyType(Module \o TypeChars(obj.ty)))
      [] n \in TypeMethods(obj.ty) ->
           Found(Bound("builtin_function_or_method", name, TypeChars("type"),
                       TypePath(IF n = "__new__" /\ obj.ty = "Document"
                                THEN "dict" ELSE obj.ty)))
      [] n \in Methods(obj.ty) ->
           Found(Bound("builtin_function_or_method", name, TypeChars(obj.ty), path))
      [] n \in MethodWrappers(obj.ty) ->
           Found(Bound("method-wrapper", name, TypeChars(obj.ty), path))
      [] n = "__hash__" /\ obj.ty \in {"list", "dict", "Document"} -> Found(PyNone)
      [] n = "__doc__" /\ obj.ty = "NoneType" -> Found(PyNone)
      [] \/ n = "__doc__"
         \/ obj.ty = "Document" /\ n \in {"__dict__", "__module__", "__weakref__"} ->
           NotFound(NotModelled("attribute " \o n))
      [] OTHER -> NoAttribute

\* FieldNameIterator: the accessors .attr and [key] after the first part of
\* a field name, applied one after the other from index i of rest
RECURSIVE FieldNameIterator(_, _, _, _)
FieldNameIterator(obj, rest, i, path) ==
    LET \* go on from index j with the object got, or stop at its exception
        Then(got, j, step) ==
            IF got.ok THEN FieldNameIterator(got.val, rest, j, Append(path, step)) ELSE got
        \* .name, the name running to index e
        Attribute(name, e) ==
            IF name = <<>>
            THEN NotFound(Exc("ValueError", "Empty attribute in format string"))
            ELSE Then(GetAttr(obj, name, path), e, <<".">> \o name)
        \* [name], the bracket closed at index c
        Index(name, idx, c) ==
            IF c > Len(rest)
            THEN NotFound(Exc("ValueError", "Missing ']' in format string"))
            ELSE IF idx.err THEN NotFound(TooManyDigits)
            ELSE IF name = <<>>
            THEN NotFound(Exc("ValueError", "Empty attribute in format string"))
            ELSE Then(IF idx.isint THEN GetItemIdx(obj, idx.digits)
                      ELSE GetItemStr(obj, name), c + 1,
                      IF idx.isint THEN idx.digits ELSE name)
        Dot(e) == Attribute(SubSeq(rest, i + 1, e - 1), e)
        Key(name, c) == Index(name, GetInteger(name), c)
        Bracket(c) == Key(SubSeq(rest, i + 1, c - 1), c)
    IN
    IF i > Len(rest) THEN Found(obj)
    ELSE IF rest[i] = "." THEN Dot(Find(rest, i + 1, {".", "["}))
    ELSE IF rest[i] = "[" THEN Bracket(Find(rest, i + 1, {"]"}))
    ELSE NotFound(Exc("ValueError",
                      "Only '.' or '[' may follow ']' in format field specifier"))

\* get_field_object: the first part of the name runs to the first . or [ ;
\* empty or an integer it is a positional argument, and the call passes
\* none; otherwise it is a keyword
GetFieldObject(field_name, kwargs) ==
    LET Object(first, idx, e) ==
            IF idx.err THEN NotFound(TooManyDigits)
            ELSE IF first = <<>> \/ idx.isint
            THEN NotFound(Exc("IndexError",
                              "Replacement index "
                                  \o (IF first = <<>> THEN "0" ELSE Join(idx.digits))
                                  \o " out of range for positional args tuple"))
            ELSE IF ~HasKey(kwargs, first) THEN NotFound(KeyError(PyStr(first)))
            ELSE FieldNameIterator(Lookup(kwargs, first), field_name, e, <<first>>)
        First(first, e) == Object(first, GetInteger(first), e)
        Split(e) == First(SubSeq(field_name, 1, e - 1), e)
    IN Split(Find(field_name, 1, {".", "["}))

\* the text of a character in a message: itself when its code is above 32
\* and below limit, else its code as \x..
CharOrCode(c, limit) ==
    IF Ord(c) > 32 /\ Ord(c) < limit THEN c ELSE "\\x" \o Join(HexCode(c))

\* do_conversion: !r, !s and !a
DoConversion(obj, conversion, at) ==
    CASE conversion \in {"r", "s", "a"} /\ ~HasAddress(obj, at) ->
           NotFound(NotModelled("address of " \o Join(obj.v[2]) \o " object"))
      [] conversion \in {"r", "a"} -> Found(PyStr(Repr(obj, at, conversion = "a")))
      [] conversion = "s" -> Found(PyStr(StrOfValue(obj, at)))
      [] OTHER -> NotFound(Exc("ValueError",
                               "Unknown conversion specifier " \o CharOrCode(conversion, 127)))

(***************************************************************************)
(* The format specification of a str: [[fill]align][sign][z][#][0][width]  *)
(* [grouping][.precision][type]                                            *)
(***************************************************************************)
IsAlign(c) == c \in {"<", ">", "=", "^"}

Repeat(c, n) == [i \in 1..n |-> c]

\* whether the character at index pos of spec is one of chars
At(spec, pos, chars) == pos <= Len(spec) /\ spec[pos] \in chars

\* parse_internal_render_format_spec for a str (default type s, default
\* alignment <), one part of the specification after the other; pos is the
\* index of the next character, error the message of the ValueError raised
SpecAlign(spec) ==
    LET f == [error |-> "", fill |-> " ", align |-> "<", fill_given |-> FALSE,
              sign |-> "", no_neg_0 |-> FALSE, alternate |-> FALSE, width |-> <<>>,
              comma |-> FALSE, underscore |-> FALSE, dot |-> FALSE,
              precision |-> <<>>, type |-> "s", pos |-> 1]
    IN
    IF Len(spec) >= 2 /\ IsAlign(spec[2])
    THEN [f EXCEPT !.fill = spec[1], !.align = spec[2], !.fill_given = TRUE, !.pos = 3]
    ELSE IF Len(spec) >= 1 /\ IsAlign(spec[1])
    THEN [f EXCEPT !.align = spec[1], !.pos = 2]
    ELSE f

SpecSign(spec, f) ==
    IF At(spec, f.pos, {"+", "-", " "})
    THEN [f EXCEPT !.sign = spec[f.pos], !.pos = @ + 1]
    ELSE f

SpecNoNeg0(spec, f) ==
    IF At(spec, f.pos, {"z"}) THEN [f EXCEPT !.no_neg_0 = TRUE, !.pos = @ + 1] ELSE f

SpecAlternate(spec, f) ==
    IF At(spec, f.pos, {"#"}) THEN [f EXCEPT !.alternate = TRUE, !.pos = @ + 1] ELSE f

SpecZero(spec, f) ==
    IF ~f.fill_given /\ At(spec, f.pos, {"0"})
    THEN [f EXCEPT !.fill = "0", !.pos = @ + 1]
    ELSE f

SpecWidth(spec, f) ==
    LET Width(width, e) ==
            IF width # <<>> /\ Overflows(width)
            THEN [f EXCEPT !.error = "Too many decimal digits in format string"]
            ELSE [f EXCEPT !.width = width, !.pos = e]
        Digits(e) == Width(SubSeq(spec, f.pos, e - 1), e)
    IN Digits(DigitsEnd(spec, f.pos))

SpecComma(spec, f) ==
    IF f.error = "" /\ At(spec, f.pos, {","})
    THEN [f EXCEPT !.comma = TRUE, !.pos = @ + 1]
    ELSE f

SpecUnderscore(spec, f) ==
    IF f.error # "" THEN f
    ELSE IF At(spec, f.pos, {"_"})
    THEN IF f.comma \/ At(spec, f.pos + 1, {","})
         THEN [f EXCEPT !.error = "Cannot specify both ',' and '_'."]
         ELSE [f EXCEPT !.underscore = TRUE, !.pos = @ + 1]
    ELSE f

SpecPrecision(spec, f) ==
    LET Precision(precision, e) ==
            IF precision = <<>>
            THEN [f EXCEPT !.error = "Format specifier missing precision"]
            ELSE IF Overflows(precision)
            THEN [f EXCEPT !.error = "Too many decimal digits in format string"]
            ELSE [f EXCEPT !.dot = TRUE, !.precision = precision, !.pos = e]
        Digits(e) == Precision(SubSeq(spec, f.pos + 1, e - 1), e)
    IN
    IF f.error # "" \/ ~At(spec, f.pos, {"."}) THEN f
    ELSE Digits(DigitsEnd(spec, f.pos + 1))

SpecType(spec, f) ==
    LET type == IF f.pos = Len(spec) THEN spec[f.pos] ELSE "s"
        Cannot(grouping, shown) ==
            [f EXCEPT !.error = "Cannot specify '" \o grouping \o "' with '" \o shown \o "'."]
    IN
    IF f.error # "" THEN f
    ELSE IF Len(spec) - f.pos + 1 > 1
    THEN [f EXCEPT !.error = "Invalid format specifier '" \o Join(spec)
                                 \o "' for object of type 'str'"]
    ELSE IF f.comma /\ type \notin {"d", "e", "f", "g", "E", "G", "%", "F"}
    THEN Cannot(",", CharOrCode(type, 128))
    ELSE IF f.underscore /\ type \notin {"d", "e", "f", "g", "E", "G", "%", "F",
                                         "b", "o", "x", "X"}
    THEN Cannot("_", CharOrCode(type, 128))
    ELSE [f EXCEPT !.type = type]

ParseFormatSpec(spec) ==
    SpecType(spec, SpecPrecision(spec, SpecUnderscore(spec, SpecComma(spec,
        SpecWidth(spec, SpecZero(spec, SpecAlternate(spec, SpecNoNeg0(spec,
            SpecSign(spec, SpecAlign(spec))))))))))

\* format_string_internal: the str cut to the precision and padded to the
\* width
FormatStringInternal(s, f) ==
    LET Padded(cut, pad, lpad) ==
            Repeat(f.fill, lpad) \o cut \o Repeat(f.fill, pad - lpad)
        \* the padding goes right, left or to both sides
        Pad(cut, pad) ==
            Padded(cut, pad, CASE f.align = ">" -> pad
                               [] f.align = "^" -> pad \div 2
                               [] OTHER -> 0)
        Widen(cut, width) ==
            Pad(cut, IF f.width # <<>> /\ width > Len(cut) THEN width - Len(cut) ELSE 0)
        Cut(cut) == Widen(cut, IntOf(StripZeros(f.width)))
    IN
    IF f.sign = " "
    THEN Err("ValueError", "Space not allowed in string format specifier")
    ELSE IF f.sign # ""
    THEN Err("ValueError", "Sign not allowed in string format specifier")
    ELSE IF f.no_neg_0
    THEN Err("ValueError",
             "Negative zero coercion (z) not allowed in string format specifier")
    ELSE IF f.alternate
    THEN Err("ValueError", "Alternate form (#) not allowed in string format specifier")
    ELSE IF f.align = "="
    THEN Err("ValueError", "'=' alignment not allowed in string format specifier")
    ELSE IF Len(StripZeros(f.width)) > 9
    THEN Failure(NotModelled("a width of more than nine digits"))
    ELSE Ok(Cut(IF f.dot /\ InRange(f.precision, Len(s))
                THEN SubSeq(s, 1, IntOf(f.precision)) ELSE s))

\* str.__format__(spec)
FormatStr(s, spec) ==
    LET Formatted(f) ==
            IF f.error # "" THEN Err("ValueError", f.error)
            ELSE IF f.type # "s"
            THEN Err("ValueError", "Unknown format code '" \o CharOrCode(f.type, 128)
                                       \o "' for object of type 'str'")
            ELSE FormatStringInternal(s, f)
    IN IF spec = <<>> THEN Ok(s) ELSE Formatted(ParseFormatSpec(spec))

\* format(obj, spec): of the values of a document only a str takes a
\* specification; the specifications of an int are not modelled
FormatValue(obj, spec, at) ==
    IF obj.ty = "str" THEN FormatStr(obj.v, spec)
    ELSE IF spec = <<>> /\ ~HasAddress(obj, at)
    THEN Failure(NotModelled("address of " \o Join(obj.v[2]) \o " object"))
    ELSE IF spec = <<>> THEN Ok(StrOfValue(obj, at))
    ELSE IF obj.ty = "int" THEN Failure(NotModelled("format specification of an int"))
    ELSE Err("TypeError",
             "unsupported format string passed to " \o TypeName(obj) \o ".__format__")

(***************************************************************************)
(* The replacement fields of a template                                    *)
(***************************************************************************)
\* parse_field, the field name: the index of the character that ends it,
\* one of } : ! { ; what stands between [ and ] is passed over
RECURSIVE FieldNameEnd(_, _)
FieldNameEnd(s, i) ==
    LET Closed(c) == IF c > Len(s) THEN c ELSE FieldNameEnd(s, c + 1)
        Stop(t) == IF t > Len(s) \/ s[t] # "[" THEN t ELSE Closed(Find(s, t + 1, {"]"}))
    IN Stop(Find(s, i, {"{", "}", ":", "!", "["}))

\* parse_field, the format specification: the index of the } that closes
\* the field, braces inside the specification being counted
RECURSIVE FormatSpecEnd(_, _, _)
FormatSpecEnd(s, i, count) ==
    LET Brace(b) ==
            IF b > Len(s) THEN b
            ELSE IF s[b] = "{" THEN FormatSpecEnd(s, b + 1, count + 1)
            ELSE IF count = 1 THEN b ELSE FormatSpecEnd(s, b + 1, count - 1)
    IN Brace(Find(s, i, {"{", "}"}))

\* a parsed field, and the index of the character after it
Field(name, conversion, spec, next) ==
    [ok |-> TRUE, exc |-> NoExc, name |-> name, conversion |-> conversion,
     spec |-> spec, next |-> next]
NoField(msg) ==
    [ok |-> FALSE, exc |-> Exc("ValueError", msg), name |-> <<>>, conversion |-> "",
     spec |-> <<>>, next |-> 0]

\* the format specification that starts at index i
ParseSpecFrom(s, name, conversion, i) ==
    LET Spec_(e) ==
            IF e > Len(s) THEN NoField("unmatched '{' in format spec")
            ELSE Field(name, conversion, SubSeq(s, i, e - 1), e + 1)
    IN Spec_(FormatSpecEnd(s, i, 1))

\* parse_field: the field whose first character is at index p of s
ParseField(s, p) ==
    LET \* the conversion character c and what follows it, at index i
        Conversion(name, c, i) ==
            IF i > Len(s) THEN ParseSpecFrom(s, name, c, i)
            ELSE IF s[i] = "}" THEN Field(name, c, <<>>, i + 1)
            ELSE IF s[i] # ":" THEN NoField("expected ':' after conversion specifier")
            ELSE ParseSpecFrom(s, name, c, i + 1)
        \* the name ends before index t
        Named(name, t) ==
            IF t > Len(s) THEN NoField("expected '}' before end of string")
            ELSE IF s[t] = "{" THEN NoField("unexpected '{' in field name")
            ELSE IF s[t] = "}" THEN Field(name, "", <<>>, t + 1)
            ELSE IF s[t] = ":" THEN ParseSpecFrom(s, name, "", t + 1)
            ELSE IF t + 1 > Len(s)
            THEN NoField("end of string while looking for conversion specifier")
            ELSE Conversion(name, s[t + 1], t + 2)
        Name(t) == Named(SubSeq(s, p, t - 1), t)
    IN Name(FieldNameEnd(s, p))

\* build_string: the literal text and the fields of s from index start on;
\* a specification that holds fields is itself built, one level deep
RECURSIVE BuildString(_, _, _, _), MarkupIterator(_, _, _, _, _, _)
BuildString(s, kwargs, recursion_depth, at) ==
    IF recursion_depth <= 0 THEN Err("ValueError", "Max string recursion exceeded")
    ELSE MarkupIterator(s, 1, kwargs, recursion_depth, at, <<>>)

\* output_markup: look the field up, convert it, build its specification,
\* format it
OutputMarkup(f, kwargs, recursion_depth, at) ==
    LET Formatted(val, spec) ==
            IF ~spec.ok THEN spec ELSE FormatValue(val, spec.out, at)
        Converted(conv) ==
            IF ~conv.ok THEN Failure(conv.exc)
            ELSE Formatted(conv.val,
                           IF "{" \in Range(f.spec)
                           THEN BuildString(f.spec, kwargs, recursion_depth - 1, at)
                           ELSE Ok(f.spec))
        Looked(obj) ==
            IF ~obj.ok THEN Failure(obj.exc)
            ELSE Converted(IF f.conversion = "" THEN obj
                           ELSE DoConversion(obj.val, f.conversion, at))
    IN Looked(GetFieldObject(f.name, kwargs))

MarkupIterator(s, start, kwargs, recursion_depth, at, acc) ==
    LET \* the text so far, and the iteration from index i on
        Iterate(text, i) == MarkupIterator(s, i, kwargs, recursion_depth, at, text)
        Output(b, f, out) ==
            IF ~out.ok THEN out
            ELSE Iterate(acc \o SubSeq(s, start, b - 1) \o out.out, f.next)
        Parsed(b, f) ==
            IF ~f.ok THEN Failure(f.exc)
            ELSE Output(b, f, OutputMarkup(f, kwargs, recursion_depth, at))
        \* the next brace is at index b
        Brace(b) ==
            IF b > Len(s) THEN Ok(acc \o SubSeq(s, start, Len(s)))
            ELSE IF s[b] = "}" /\ (b = Len(s) \/ s[b + 1] # "}")
            THEN Err("ValueError", "Single '}' encountered in format string")
            ELSE IF s[b] = "{" /\ b = Len(s)
            THEN Err("ValueError", "Single '{' encountered in format string")
            ELSE IF s[b + 1] = s[b]
            THEN Iterate(acc \o SubSeq(s, start, b), b + 2)
            ELSE Parsed(b, ParseField(s, b + 1))
    IN Brace(Find(s, start, {"{", "}"}))

\* fmt.format with the keywords {doc_name: fdoc} and additional: a keyword
\* given twice is a TypeError of the call itself
StrFormat(fmt, doc_name, fdoc, additional, at) ==
    IF HasKey(additional, doc_name)
    THEN Err("TypeError",
             "str.format() got multiple values for keyword argument '"
                 \o Join(doc_name) \o "'")
    ELSE BuildString(fmt, <<Item(doc_name, fdoc)>> \o additional, 2, at)


(***************************************************************************)
(* The template backend of Jinja2Formater: Template(fmt) compiles the      *)
(* whole template (a syntax error is raised before anything is rendered),  *)
(* render evaluates the print statements {{ ... }} left to right against   *)
(* a context that holds the caller's document itself, not a copy, in an    *)
(* environment that is not sandboxed.  The expressions evaluated here are  *)
(* name, name.attr.attr...  and a call name.attr...() or                   *)
(* name.attr...('key') ; of the calls, those of the document's methods     *)
(* clear, pop and get, and that of sys.exit, which a template reaches from *)
(* the global lipsum.  Block statements, comments and every other          *)
(* expression are NotModelled.                                             *)
(***************************************************************************)
AsciiLower ==
    <<"a", "b", "c", "d", "e", "f", "g", "h", "i", "j", "k", "l", "m",
      "n", "o", "p", "q", "r", "s", "t", "u", "v", "w", "x", "y", "z">>
AsciiUpper ==
    <<"A", "B", "C", "D", "E", "F", "G", "H", "I", "J", "K", "L", "M",
      "N", "O", "P", "Q", "R", "S", "T", "U", "V", "W", "X", "Y", "Z">>
AtoZ == Range(AsciiLower)
Digits == Range(DecimalDigits)

NameStart == AtoZ \cup Range(AsciiUpper) \cup {"_"}

\* the names the template language binds, and those of its default
\* namespace but lipsum
JinjaReserved ==
    {"true", "false", "none", "True", "False", "None", "range", "dict",
     "cycler", "joiner", "namespace", "not", "and", "or", "in", "is", "if", "else"}

\* the lexer reads "\r\n" and "\r" as "\n" and drops one trailing newline
JinjaSource(fmt) ==
    LET nl == SelectSeq([i \in DOMAIN fmt |->
                            IF fmt[i] = "\r" /\ i < Len(fmt) /\ fmt[i + 1] = "\n" THEN ""
                            ELSE IF fmt[i] = "\r" THEN "\n" ELSE fmt[i]],
                        LAMBDA c : c # "")
    IN IF nl # <<>> /\ nl[Len(nl)] = "\n" THEN SubSeq(nl, 1, Len(nl) - 1) ELSE nl

\* index of the first pair of characters a b at or after i, Len(s) + 1 when none
FindPair(s, i, a, b) ==
    LET hits == {j \in i..(Len(s) - 1) : s[j] = a /\ s[j + 1] = b} IN
    IF hits = {} THEN Len(s) + 1 ELSE CHOOSE j \in hits : \A k \in hits : j <= k

Token(kind, v) == [kind |-> kind, v |-> v]

\* the tokens of an expression from index i on
RECURSIVE Tokens(_, _)
Tokens(e, i) ==
    IF i > Len(e) THEN <<>>
    ELSE IF e[i] \in {" ", "\t", "\n"} THEN Tokens(e, i + 1)
    ELSE IF e[i] \in NameStart THEN
        LET n == Find(e, i, Range(e) \ (NameStart \cup Digits)) IN
        <<Token("name", SubSeq(e, i, n - 1))>> \o Tokens(e, n)
    ELSE IF e[i] \in {".", "(", ")"} THEN <<Token(e[i], <<e[i]>>)>> \o Tokens(e, i + 1)
    ELSE IF e[i] \in {"'", "\""} THEN
        LET c == Find(e, i + 1, {e[i]}) IN
        IF c > Len(e) \/ "\\" \in Range(SubSeq(e, i + 1, c - 1))
        THEN <<Token("other", <<e[i]>>)>>
        ELSE <<Token("string", SubSeq(e, i + 1, c - 1))>> \o Tokens(e, c + 1)
    ELSE <<Token("other", <<e[i]>>)>>

\* the number of tokens of the attribute chain name.attr.attr... that toks
\* starts with, 0 when it starts with none
RECURSIVE ChainLen(_, _)
ChainLen(toks, n) ==
    IF n = 0
    THEN (IF toks # <<>> /\ toks[1].kind = "name" THEN ChainLen(toks, 1) ELSE 0)
    ELSE IF Len(toks) >= n + 2 /\ toks[n + 1].kind = "." /\ toks[n + 2].kind = "name"
    THEN ChainLen(toks, n + 2)
    ELSE n

\* the expression of a print statement: its kind, the names of its chain and
\* the arguments of its call
ParseExpr(e) ==
    LET Other == [kind |-> "other", names |-> <<>>, args |-> <<>>]
        \* the chain is n tokens long, names its names, rest the tokens after it
        Classify(n, names, rest, kinds) ==
            IF n = 0 \/ \E i \in DOMAIN names : Join(names[i]) \in JinjaReserved
            THEN Other
            ELSE IF rest = <<>> THEN [kind |-> "chain", names |-> names, args |-> <<>>]
            ELSE IF kinds = <<"(", ")">>
            THEN [kind |-> "call", names |-> names, args |-> <<>>]
            ELSE IF kinds = <<"(", "string", ")">>
            THEN [kind |-> "call", names |-> names, args |-> <<rest[2].v>>]
            ELSE IF kinds[1] = "name"
            THEN [kind |-> "name follows", names |-> names, args |-> <<rest[1].v>>]
            ELSE Other
        After(n, names, rest) ==
            Classify(n, names, rest, [i \in DOMAIN rest |-> rest[i].kind])
        Chain(toks, n) ==
            After(n, [i \in 1..((n + 1) \div 2) |-> toks[2 * i - 1].v],
                  SubSeq(toks, n + 1, Len(toks)))
        Lexed(toks) ==
            IF toks = <<>> THEN [kind |-> "empty", names |-> <<>>, args |-> <<>>]
            ELSE Chain(toks, ChainLen(toks, 0))
    IN Lexed(Tokens(e, 1))

TemplateSyntaxError(msg) == Exc("TemplateSyntaxError", msg)

\* jinja2.Template(fmt): the error of the first print statement that does
\* not compile, from index i of the source on
RECURSIVE JinjaCompile(_, _)
JinjaCompile(s, i) ==
    LET \* the print statement opened at index open holds e
        Statement(e, open, close, closed) ==
            IF e.kind = "other"
            THEN Failure(NotModelled("expression " \o Join(SubSeq(s, open, Len(s)))))
            ELSE IF e.kind = "empty" /\ closed
            THEN Failure(TemplateSyntaxError(
                             "Expected an expression, got 'end of print statement'"))
            ELSE IF e.kind = "empty"
            THEN Failure(NotModelled("expression " \o Join(SubSeq(s, open, Len(s)))))
            ELSE IF e.kind = "name follows"
            THEN Failure(TemplateSyntaxError(
                             "expected token 'end of print statement', got '"
                                 \o Join(e.args[1]) \o "'"))
            ELSE IF ~closed
            THEN Failure(TemplateSyntaxError(
                             "unexpected end of template, expected 'end of print statement'."))
            ELSE JinjaCompile(s, close + 2)
        Closed(open, close) ==
            Statement(ParseExpr(SubSeq(s, open + 2,
                                       IF close <= Len(s) THEN close - 1 ELSE Len(s))),
                      open, close, close <= Len(s))
        Opened(open) ==
            IF open > Len(s) THEN Ok(<<>>)
            ELSE Closed(open, FindPair(s, open + 2, "}", "}"))
    IN Opened(FindPair(s, i, "{", "{"))

\* a value during rendering; an undefined one carries the message it raises with
Undefined(msg) == [ty |-> "Undefined", v |-> msg]

\* object_type_repr(obj)
ObjectTypeRepr(obj) == IF obj.ty = "NoneType" THEN "None" ELSE TypeName(obj) \o " object"

\* The objects a template reaches from the global lipsum, the function
\* jinja2.utils.generate_lorem_ipsum: the globals of its module, which
\* imports os; the module sys that os imports; its function exit
lipsum == <<"l", "i", "p", "s", "u", "m">>
PyFunction(name) == [ty |-> "function", v |-> name]
PyGlobals(module) == [ty |-> "globals", v |-> module]
PyModule(name) == [ty |-> "module", v |-> name]
SysExit ==
    Bound("builtin_function_or_method", <<"e", "x", "i", "t">>,
          <<"m", "o", "d", "u", "l", "e">>, <<>>)

\* environment.getattr(obj, attr): a Python attribute first, then obj[attr],
\* then an Undefined; an attribute of an Undefined raises
JinjaGetAttr(obj, attr, path) ==
    LET Subscript(item) ==
            IF item.ok THEN item
            ELSE Found(Undefined("'" \o ObjectTypeRepr(obj) \o "' has no attribute '"
                                     \o Join(attr) \o "'"))
        Attribute(a) ==
            IF a.ok \/ a.exc.type # "AttributeError" THEN a
            ELSE Subscript(GetItemStr(obj, attr))
        Other == NotFound(NotModelled("attribute " \o Join(attr) \o " of a " \o obj.ty))
    IN
    CASE obj.ty = "Undefined" -> NotFound(Exc("UndefinedError", obj.v))
      [] obj.ty = "function" ->
           IF Join(attr) = "__globals__" THEN Found(PyGlobals("jinja2.utils")) ELSE Other
      [] obj.ty = "globals" -> IF Join(attr) = "os" THEN Found(PyModule("os")) ELSE Other
      [] obj.ty = "module" ->
           IF obj.v = "os" /\ Join(attr) = "sys" THEN Found(PyModule("sys"))
           ELSE IF obj.v = "sys" /\ Join(attr) = "exit" THEN Found(SysExit)
           ELSE Other
      [] obj = SysExit -> Other
      [] OTHER -> Attribute(GetAttr(obj, attr, path))

\* the attributes names[i], names[i + 1], ... taken from obj one after the other
RECURSIVE JinjaChain(_, _, _)
JinjaChain(obj, names, i) ==
    LET Then(got) == IF got.ok THEN JinjaChain(got.val, names, i + 1) ELSE got IN
    IF i > Len(names) THEN Found(obj)
    ELSE Then(JinjaGetAttr(obj, names[i], SubSeq(names, 1, i - 1)))

\* the context of render: the keyword arguments, then the globals of the
\* environment; any other name is undefined
JinjaLookup(ctx, name) ==
    IF HasKey(ctx, name) THEN Lookup(ctx, name)
    ELSE IF name = lipsum THEN PyFunction("generate_lorem_ipsum")
    ELSE Undefined("'" \o Join(name) \o "' is undefined")

\* the result of a print statement: what it prints, and the document after it
Printed(out, doc) == [ok |-> TRUE, out |-> out, exc |-> NoExc, doc |-> doc]
Failed(e, doc) == [ok |-> FALSE, out |-> <<>>, exc |-> e, doc |-> doc]

\* a method of the document bound as doc_name, called with args
JinjaCall(method, args, doc, at) ==
    LET \* the value the call returns and the document after it, or its exception
        Returns(val, after) == [ok |-> TRUE, val |-> val, exc |-> NoExc, doc |-> after]
        Raises(e) == [ok |-> FALSE, val |-> PyNone, exc |-> e, doc |-> doc]
        Print_(r) ==
            IF r.ok THEN Printed(StrOfValue(r.val, at), r.doc) ELSE Failed(r.exc, r.doc)
    IN
    Print_(CASE method = "clear" ->
                  IF args = <<>> THEN Returns(PyNone, EmptyDict)
                  ELSE Raises(Exc("TypeError", "dict.clear() takes no arguments (1 given)"))
             [] method = "pop" ->
                  IF args = <<>>
                  THEN Raises(Exc("TypeError", "pop expected at least 1 argument, got 0"))
                  ELSE IF HasKey(doc, args[1])
                  THEN Returns(Lookup(doc, args[1]), DelItem(doc, args[1]))
                  ELSE Raises(KeyError(PyStr(args[1])))
             [] method = "get" ->
                  IF args = <<>>
                  THEN Raises(Exc("TypeError", "get expected at least 1 argument, got 0"))
                  ELSE Returns(IF HasKey(doc, args[1]) THEN Lookup(doc, args[1])
                               ELSE PyNone, doc)
             [] OTHER -> Raises(NotModelled("call of " \o method)))

\* one print statement in the context: doc_name is bound to doc itself
JinjaPrint(e, doc_name, doc, additional, at) ==
    LET \* sys.exit(*args) raises SystemExit(*args)
        Exit == Failed(Exc("SystemExit", IF e.args = <<>> THEN "" ELSE Join(e.args[1])),
                       doc)
        Value(got) ==
            IF ~got.ok THEN Failed(got.exc, doc)
            ELSE IF got.val.ty \in {"function", "globals", "module"}
            THEN Failed(NotModelled("use of a " \o got.val.ty), doc)
            ELSE IF e.kind = "chain" /\ got.val.ty # "Undefined" /\ ~HasAddress(got.val, at)
            THEN Failed(NotModelled("address of " \o Join(got.val.v[2]) \o " object"), doc)
            ELSE IF e.kind = "chain" THEN
                Printed(IF got.val.ty = "Undefined" THEN <<>> ELSE StrOfValue(got.val, at),
                        doc)
            ELSE IF got.val.ty = "Undefined"
            THEN Failed(Exc("UndefinedError", got.val.v), doc)
            ELSE IF got.val = SysExit THEN Exit
            ELSE IF got.val.ty \in {"str", "list", "dict", "NoneType"}
            THEN Failed(Exc("TypeError",
                            "'" \o TypeName(got.val) \o "' object is not callable"), doc)
            ELSE IF /\ got.val.ty = "builtin_function_or_method"
                    /\ Len(e.names) = 2 /\ e.names[1] = doc_name
            THEN JinjaCall(Join(e.names[2]), e.args, doc, at)
            ELSE Failed(NotModelled("call of " \o Join(e.names[Len(e.names)])), doc)
        Context(ctx) == Value(JinjaChain(JinjaLookup(ctx, e.names[1]), e.names, 2))
    IN Context(<<Item(doc_name, PyDict(doc))>> \o additional)

\* render: the text and the print statements of the source from index i on
RECURSIVE JinjaRender(_, _, _, _, _, _, _)
JinjaRender(s, i, doc_name, doc, additional, at, acc) ==
    LET Done(open, close, p) ==
            IF p.ok
            THEN JinjaRender(s, close + 2, doc_name, p.doc, additional, at,
                             acc \o SubSeq(s, i, open - 1) \o p.out)
            ELSE p
        Statement(open, close) ==
            Done(open, close,
                 JinjaPrint(ParseExpr(SubSeq(s, open + 2, close - 1)), doc_name, doc,
                            additional, at))
        Opened(open) ==
            IF open > Len(s) THEN Printed(acc \o SubSeq(s, i, Len(s)), doc)
            ELSE Statement(open, FindPair(s, open + 2, "}", "}"))
    IN Opened(FindPair(s, i, "{", "{"))

\* self.jinja2.Template(fmt).render with the keywords {doc_name: doc} and
\* additional: compile, then the keyword check of the call, then render
JinjaTemplateRender(fmt, doc_name, doc, additional, at) ==
    LET Compiled(s, compiled) ==
            IF ~compiled.ok THEN Failed(compiled.exc, doc)
            ELSE IF HasKey(additional, doc_name)
            THEN Failed(Exc("TypeError",
                            "jinja2.environment.Template.render() got multiple values for keyword argument '"
                                \o Join(doc_name) \o "'"), doc)
            ELSE JinjaRender(s, 1, doc_name, doc, additional, at, <<>>)
        Source(s) ==
            IF FindPair(s, 1, "{", "%") <= Len(s) \/ FindPair(s, 1, "{", "#") <= Len(s)
            THEN Failed(NotModelled("block statements and comments"), doc)
            ELSE Compiled(s, JinjaCompile(s, 1))
    IN Source(JinjaSource(fmt))


(***************************************************************************)
(* The names bound in the module namespace of format.py: its imports       *)
(* (lines 1-7) and its top-level definitions.  A function body that uses   *)
(* any other bare name raises NameError when it reaches it.                *)
(***************************************************************************)
ModuleGlobals ==
    {"logging", "Optional", "Union", "Any", "Dict", "papis", "Document",
     "FormatDocType", "logger", "_FORMATER", "InvalidFormatterValue",
     "Formater", "PythonFormater", "Jinja2Formater", "CustomFormater",
     "_extension_name", "get_formater", "format"}

NameError(name) == Exc("NameError", "name '" \o name \o "' is not defined")

(***************************************************************************)
(* PythonFormater.format                                                   *)
(***************************************************************************)
\* doc_key or papis.config.getstring("format-doc-name")
DocName(doc_key, format_doc_name) == IF doc_key # <<>> THEN doc_key ELSE format_doc_name

\* what a format method does: its outcome, the caller's document after it
\* and the exception the evaluation of the template raised, if any
Did(outcome, doc, raised) == [outcome |-> outcome, doc |-> doc, raised |-> raised]

\* at tells where the interpreter places the new Document and has placed
\* the values of the arguments
PythonFormaterFormat(fmt, doc, doc_key, additional, format_doc_name, at) ==
    LET doc_name == DocName(doc_key, format_doc_name)
        fdoc == DocumentCopy(doc)
        \* return fmt.format(...), or except Exception: return str(exception)
        Formatted(r) ==
            IF r.ok THEN Did(Return(Join(r.out)), doc, NoExc)
            ELSE IF r.exc.type = "not modelled" THEN Did(Unknown(r.exc.arg), doc, NoExc)
            ELSE IF IsException(r.exc) THEN Did(Return(StrOfException(r.exc)), doc, r.exc)
            ELSE Did(Raise(r.exc), doc, r.exc)
    IN Formatted(StrFormat(fmt, doc_name, fdoc, additional, at))

(***************************************************************************)
(* Jinja2Formater                                                          *)
(***************************************************************************)
LogRecord(level, msg, arg) == [level |-> level, msg |-> msg, arg |-> arg]

\* the result of a constructor call: the instance (or the exception) and
\* what it logged
Constructed(inst, logs) == [ok |-> TRUE, inst |-> inst, exc |-> NoExc, logs |-> logs]
NotConstructed(e, logs) ==
    [ok |-> FALSE, inst |-> [cls |-> "", jinja2 |-> FALSE], exc |-> e, logs |-> logs]

\* a faulty variant, for comparison: the ImportError of the backend leaves the constructor
Jinja2FormaterInitRaises(jinja2_installed) ==
    IF jinja2_installed
    THEN Constructed([cls |-> "Jinja2Formater", jinja2 |-> TRUE], {})
    ELSE NotConstructed(Exc("ImportError", "No module named 'jinja2'"), {})

\* the text handed to logger.exception
Jinja2NotInstalled ==
    "\n            You're trying to format strings using jinja2"
        \o "\n            Jinja2 is not installed by default, so just install it"
        \o "\n                pip3 install jinja2"
        \o "\n            "

\* __init__: import jinja2; on ImportError log and go on without self.jinja2
Jinja2FormaterInit(jinja2_installed) ==
    IF jinja2_installed
    THEN Constructed([cls |-> "Jinja2Formater", jinja2 |-> TRUE], {})
    ELSE Constructed([cls |-> "Jinja2Formater", jinja2 |-> FALSE],
                     {LogRecord("exception", Jinja2NotInstalled, "")})

\* at tells where the interpreter has placed the document and the values
\* of the arguments
Jinja2FormaterFormat(self, fmt, doc, doc_key, additional, format_doc_name, at) ==
    LET doc_name == DocName(doc_key, format_doc_name)
        \* self.jinja2 inside the try block, when __init__ has not set it
        NoBackend ==
            Exc("AttributeError", "'Jinja2Formater' object has no attribute 'jinja2'")
        \* return str(...render(...)), or except Exception: return str(exception);
        \* the document is the caller's and is as the template leaves it
        Rendered(r) ==
            IF r.ok THEN Did(Return(Join(r.out)), r.doc, NoExc)
            ELSE IF r.exc.type = "not modelled" THEN Did(Unknown(r.exc.arg), r.doc, NoExc)
            ELSE IF IsException(r.exc)
            THEN Did(Return(StrOfException(r.exc)), r.doc, r.exc)
            ELSE Did(Raise(r.exc), r.doc, r.exc)
    IN
    IF ~self.jinja2 THEN Did(Return(StrOfException(NoBackend)), doc, NoBackend)
    ELSE Rendered(JinjaTemplateRender(fmt, doc_name, doc, additional, at))

(***************************************************************************)
(* CustomFormater                                                          *)
(***************************************************************************)
SKIP_WORDS ==
    {"about", "above", "across", "afore", "after", "against", "al",
     "along", "alongside", "amid", "amidst", "among", "amongst", "anenst",
     "apropos", "apud", "around", "as", "aside", "astride", "at",
     "athwart", "atop", "barring", "before", "behind", "below", "beneath",
     "beside", "besides", "between", "beyond", "but", "by", "circa",
     "despite", "down", "during", "et", "except", "for", "forenenst",
     "from", "given", "in", "inside", "into", "lest", "like", "modulo",
     "near", "next", "notwithstanding", "of", "off", "on", "onto", "out",
     "over", "per", "plus", "pro", "qua", "sans", "since", "than",
     "through", " thru", "throughout", "thruout", "till", "to", "toward",
     "towards", "under", "underneath", "until", "unto", "up", "upon",
     "versus", "vs.", "v.", "vs", "v", "via", "vis-à-vis", "with",
     "within", "without", "according to", "ahead of", "apart from",
     "as for", "as of", "as per", "as regards", "aside from", "back to",
     "because of", "close to", "due to", "except for", "far from",
     "inside of", "instead of", "near to", "next to", "on to", "out from",
     "out of", "outside of", "prior to", "pursuant to", "rather than",
     "regardless of", "such as", "that of", "up to", "where as", "or",
     "yet", "so", "and", "nor", "a", "an", "the", "de", "d'",
     "von", "van", "c", "ca"}

\* s[-2:]
LastTwo(s) == SubSeq(s, IF Len(s) > 2 THEN Len(s) - 1 ELSE 1, Len(s))

\* Lines 120-128 as written, were every name they use bound.  Each
\* substitution removes what is not an ASCII letter, digit or space, and of
\* the characters a string of this language holds lower() turns only A-Z
\* into such a character: the letters beyond ASCII are removed whatever
\* their case.
\* re.sub('[^a-z]+', '', family.lower())
AuthorToken(family) ==
    LET Lower(c) ==
            IF c \in Range(AsciiUpper)
            THEN AsciiLower[CHOOSE i \in DOMAIN AsciiUpper : AsciiUpper[i] = c]
            ELSE c
    IN SelectSeq([i \in DOMAIN family |-> Lower(family[i])], LAMBDA c : c \in AtoZ)

\* year[-2:]
YearToken(year) == LastTwo(year)

\* title.lower(), '-' replaced by ' ', the characters outside 0-9a-z and
\* space removed, then split(): the maximal runs without a space, the only
\* whitespace left
TitleWords(title) ==
    LET Lower(c) ==
            IF c \in Range(AsciiUpper)
            THEN AsciiLower[CHOOSE i \in DOMAIN AsciiUpper : AsciiUpper[i] = c]
            ELSE IF c = "-" THEN " "
            ELSE c
        Split(s) ==
            LET starts == {i \in DOMAIN s : s[i] # " " /\ (i = 1 \/ s[i - 1] = " ")}
                Nth(n) == CHOOSE i \in starts : Cardinality({j \in starts : j < i}) = n - 1
            IN [n \in 1..Cardinality(starts) |->
                   SubSeq(s, Nth(n), Find(s, Nth(n), {" "}) - 1)]
    IN Split(SelectSeq([i \in DOMAIN title |-> Lower(title[i])],
                       LAMBDA c : c \in AtoZ \cup Digits \cup {" "}))

\* map(str.capitalize, filter(lambda word: word and word not in SKIP_WORDS,
\* words)), the first four joined; a word holds digits and lower-case ASCII
\* letters only, so capitalize changes its first character at most
TitleToken(title) ==
    LET Filter(words) ==
            SelectSeq(words, LAMBDA word : word # <<>> /\ Join(word) \notin SKIP_WORDS)
        Capitalize(w) ==
            IF w[1] \in AtoZ
            THEN <<AsciiUpper[CHOOSE i \in DOMAIN AsciiLower : AsciiLower[i] = w[1]]>>
                 \o Tail(w)
            ELSE w
        FirstFour(words) == SubSeq(words, 1, IF Len(words) > 4 THEN 4 ELSE Len(words))
        Capitalized(words) == [i \in DOMAIN words |-> Capitalize(words[i])]
    IN Flatten(FirstFour(Capitalized(Filter(TitleWords(title)))))

CitationKey(family, year, title) ==
    Join(AuthorToken(family) \o YearToken(year) \o <<"_">> \o TitleToken(title))

\* the keys and the sentinel template the code names
author_list == <<"a", "u", "t", "h", "o", "r", "_", "l", "i", "s", "t">>
family == <<"f", "a", "m", "i", "l", "y">>
year == <<"y", "e", "a", "r">>
title == <<"t", "i", "t", "l", "e">>
custom_ref == <<"c", "u", "s", "t", "o", "m", "_", "r", "e", "f">>

\* the method name the code calls on the family name and on the title
lower == <<"l", "o", "w", "e", "r">>

\* value[-2:]
SliceLastTwo(val) ==
    CASE val.ty = "str" -> Found(PyStr(LastTwo(val.v)))
      [] val.ty = "list" -> Found(PyList(LastTwo(val.v)))
      [] val.ty \in {"dict", "Document"} ->
           NotFound(Exc("TypeError", "unhashable type: 'slice'"))
      [] OTHER -> NotFound(NotSubscriptable(val))

\* the branch fmt == 'custom_ref': the statements in order, each name looked
\* up when the statement reaches it
CustomRef(doc) ==
    LET Key(name, yy, t) ==
            IF "SKIP_WORDS" \notin ModuleGlobals /\ TitleWords(t.v) # <<>>
            THEN Raise(NameError("SKIP_WORDS"))
            ELSE Return(Join(AuthorToken(name.v) \o StrOfValue(yy, NoAddress) \o <<"_">>
                                 \o TitleToken(t.v)))
        \* doc['title'].lower: a str has the method, and the tokens are made of
        \* what it returns
        GotTitleLower(name, yy, t, tl) ==
            IF ~tl.ok THEN Raise(tl.exc) ELSE Key(name, yy, t)
        GotTitle(name, yy, t) ==
            IF ~t.ok THEN Raise(t.exc) ELSE GotTitleLower(name, yy, t.val, GetAttr(t.val, lower, <<title>>))
        \* doc['year'][-2:]
        GotSlice(name, yy) ==
            IF ~yy.ok THEN Raise(yy.exc)
            ELSE GotTitle(name, yy.val, GetItemStr(PyDict(doc), title))
        GotYear(name, y) ==
            IF ~y.ok THEN Raise(y.exc) ELSE GotSlice(name, SliceLastTwo(y.val))
        \* doc['author_list'][0]['family'].lower()
        GotLower(name, lowered) ==
            IF ~lowered.ok THEN Raise(lowered.exc)
            ELSE GotYear(name, GetItemStr(PyDict(doc), year))
        GotFamily(name) ==
            IF ~name.ok THEN Raise(name.exc) ELSE GotLower(name.val, GetAttr(name.val, lower, <<author_list, <<"0">>, family>>))
        GotFirst(first) ==
            IF ~first.ok THEN Raise(first.exc)
            ELSE GotFamily(GetItemStr(first.val, family))
        GotAuthors(authors) ==
            IF ~authors.ok THEN Raise(authors.exc)
            ELSE GotFirst(GetItemIdx(authors.val, <<"0">>))
    IN
    IF "re" \notin ModuleGlobals THEN Raise(NameError("re"))
    ELSE GotAuthors(GetItemStr(PyDict(doc), author_list))

CustomFormaterFormat(fmt, doc, doc_key, additional, format_doc_name, at) ==
    LET Key(outcome) == Did(outcome, doc, outcome.exc) IN
    IF fmt = custom_ref THEN Key(CustomRef(doc))
    ELSE PythonFormaterFormat(fmt, doc, doc_key, additional, format_doc_name, at)

(***************************************************************************)
(* The plugin collaborator and get_formater                                *)
(***************************************************************************)
\* the names under which the formatters are declared as plugins
Names == {"python", "jinja2", "custom"}
PluginClass(name) ==
    CASE name = "python" -> "PythonFormater"
      [] name = "jinja2" -> "Jinja2Formater"
      [] OTHER -> "CustomFormater"

\* _FORMATER = None
None == [cls |-> "None", jinja2 |-> FALSE, id |-> 0]

\* [name].plugin(): the constructor of the class; id tells instances apart
PluginNew(name, id, jinja2_installed) ==
    LET c == IF PluginClass(name) = "Jinja2Formater"
             THEN Jinja2FormaterInit(jinja2_installed)
             ELSE Constructed([cls |-> PluginClass(name), jinja2 |-> FALSE], {})
    IN [ok |-> c.ok, exc |-> c.exc, logs |-> c.logs,
        inst |-> [cls |-> c.inst.cls, jinja2 |-> c.inst.jinja2, id |-> id]]

InvalidFormatterValue(available) ==
    [type |-> "InvalidFormatterValue", arg |-> "Registered formatters are: %s",
     key |-> PyNone, names |-> available]

\* the strings an exception carries in its arguments
ExcArgs(e) == {e.arg} \cup e.names

\* the result of one get_formater call: what it returns or raises, the
\* value of _FORMATER after it, what it logged, and whether it read the
\* option "formater", looked the name up and constructed a plugin
Got(inst, e, cache, logs, read, lookup, built) ==
    [inst |-> inst, exc |-> e, cache |-> cache, logs |-> logs,
     read |-> read, lookup |-> lookup, built |-> built]

\* a faulty variant, for comparison: the cached instance is ignored
GetFormaterCallNoCache(cache, name, registered, jinja2_installed, id) ==
    IF name \notin registered
    THEN Got(None, InvalidFormatterValue(registered), cache,
             {LogRecord("error", "Invalid formatter: %s", name)}, TRUE, TRUE, FALSE)
    ELSE LET n == PluginNew(name, id, jinja2_installed) IN
         Got(n.inst, NoExc, n.inst,
             n.logs \cup {LogRecord("debug", "Getting %s", name)}, TRUE, TRUE, TRUE)

\* a faulty variant, for comparison: an unregistered name falls back to a cached PythonFormater
GetFormaterCallFallback(cache, name, registered, jinja2_installed, id) ==
    IF cache # None THEN Got(cache, NoExc, cache, {}, FALSE, FALSE, FALSE)
    ELSE IF name \notin registered
    THEN Got(None, InvalidFormatterValue(registered),
             PluginNew("python", id, jinja2_installed).inst,
             {LogRecord("error", "Invalid formatter: %s", name)}, TRUE, TRUE, TRUE)
    ELSE LET n == PluginNew(name, id, jinja2_installed) IN
         Got(n.inst, NoExc, n.inst,
             n.logs \cup {LogRecord("debug", "Getting %s", name)}, TRUE, TRUE, TRUE)

\* a faulty variant, for comparison: the KeyError of the lookup is not converted
GetFormaterCallKeyError(cache, name, registered, jinja2_installed, id) ==
    IF cache # None THEN Got(cache, NoExc, cache, {}, FALSE, FALSE, FALSE)
    ELSE IF name \notin registered
    THEN Got(None, Exc("KeyError", name), cache, {}, TRUE, TRUE, FALSE)
    ELSE LET n == PluginNew(name, id, jinja2_installed) IN
         Got(n.inst, NoExc, n.inst,
             n.logs \cup {LogRecord("debug", "Getting %s", name)}, TRUE, TRUE, TRUE)

\* get_formater run without interruption.  cache is _FORMATER, name the
\* value of the option "formater" (read only when the cache is unset)
GetFormaterCall(cache, name, registered, jinja2_installed, id) ==
    IF cache # None THEN Got(cache, NoExc, cache, {}, FALSE, FALSE, FALSE)
    ELSE IF name \notin registered
    THEN Got(None, InvalidFormatterValue(registered), cache,
             {LogRecord("error", "Invalid formatter: %s", name)}, TRUE, TRUE, FALSE)
    ELSE LET New(n) ==
                 IF ~n.ok THEN Got(None, n.exc, cache, n.logs, TRUE, TRUE, TRUE)
                 ELSE Got(n.inst, NoExc, n.inst,
                          n.logs \cup {LogRecord("debug", "Getting %s", name)},
                          TRUE, TRUE, TRUE)
         IN New(PluginNew(name, id, jinja2_installed))

\* formater.format(...): the method of the instance's class
MethodFormat(self, fmt, doc, doc_key, additional, format_doc_name, at) ==
    CASE self.cls = "PythonFormater" ->
           PythonFormaterFormat(fmt, doc, doc_key, additional, format_doc_name, at)
      [] self.cls = "Jinja2Formater" ->
           Jinja2FormaterFormat(self, fmt, doc, doc_key, additional, format_doc_name, at)
      [] OTHER ->
           CustomFormaterFormat(fmt, doc, doc_key, additional, format_doc_name, at)

(***************************************************************************)
(* Inputs                                                                  *)
(***************************************************************************)
DocFull ==
    <<Item(author_list, PyList(<<PyDict(<<Item(family, PyStr(<<"M", "ü", "l", "l", "e", "r">>))>>)>>)),
      Item(year, PyStr(<<"2", "0", "2", "3">>)),
      Item(title, PyStr(<<"T", "h", "e", " ", "T", "h", "e", "o", "r", "y", " ", "o", "f",
                          " ", "E", "v", "e", "r", "y", "t", "h", "i", "n", "g">>))>>
Without(doc, key) == DelItem(doc, key)

\* {doc[title]}
TitleField ==
    <<"{", "d", "o", "c", "[", "t", "i", "t", "l", "e", "]", "}">>

Templates ==
    {custom_ref, TitleField,
     \* {d[year]:>6}-{x}
     <<"{", "d", "[", "y", "e", "a", "r", "]", ":", ">", "6", "}", "-", "{",
       "x", "}">>,
     \* {doc[title]}}
     <<"{", "d", "o", "c", "[", "t", "i", "t", "l", "e", "]", "}", "}">>,
     \* {doc[author_list][0][family]!r:.5}
     <<"{", "d", "o", "c", "[", "a", "u", "t", "h", "o", "r", "_", "l", "i",
       "s", "t", "]", "[", "0", "]", "[", "f", "a", "m", "i", "l", "y", "]",
       "!", "r", ":", ".", "5", "}">>,
     \* {d.keys}{x.join}
     <<"{", "d", ".", "k", "e", "y", "s", "}", "{", "x", ".", "j", "o", "i", "n", "}">>,
     \* {{doc.title}}
     <<"{", "{", "d", "o", "c", ".", "t", "i", "t", "l", "e", "}", "}">>,
     \* {{doc.pop('title')}}
     <<"{", "{", "d", "o", "c", ".", "p", "o", "p", "(", "'", "t", "i", "t",
       "l", "e", "'", ")", "}", "}">>,
     \* {{d.year.y}}{{x
     <<"{", "{", "d", ".", "y", "e", "a", "r", ".", "y", "}", "}", "{", "{",
       "x">>,
     \* {{x.y}}
     <<"{", "{", "x", ".", "y", "}", "}">>,
     \* {{lipsum.__globals__.os.sys.exit()}}
     <<"{", "{", "l", "i", "p", "s", "u", "m", ".", "_", "_", "g", "l", "o", "b",
       "a", "l", "s", "_", "_", ".", "o", "s", ".", "s", "y", "s", ".", "e", "x",
       "i", "t", "(", ")", "}", "}">>}

\* the value of the option "format-doc-name"
format_doc_name == <<"d", "o", "c">>

(***************************************************************************)
(* State                                                                   *)
(***************************************************************************)
VARIABLES
    FORMATER,          \* the module global _FORMATER
    formater,          \* the configuration option "formater"
    registered,        \* the names the plugin collaborator has entry points for
    jinja2_installed,  \* whether "import jinja2" succeeds in this process
    constructed,       \* how many times a plugin constructor has been invoked
    logged,            \* the records handed to the logger
    last,              \* the last call of get_formater() or format(), and what it did
    pc, name, obj, returned, calls   \* the threads inside get_formater()

vars == <<FORMATER, formater, registered, jinja2_installed, constructed, logged,
          last, pc, name, obj, returned, calls>>
threadVars == <<pc, name, obj, returned, calls>>

Threads == {1, 2}
MaxCallsPerThread == 2

NoCall ==
    [op |-> "none", fmt |-> <<>>, doc |-> EmptyDict, doc_key |-> <<>>,
     additional |-> EmptyDict, outcome |-> Return(""),
     raised |-> NoExc,
     docAfter |-> EmptyDict, inst |-> None, cache0 |-> None, formater0 |-> "",
     registered0 |-> {}, read |-> FALSE, lookup |-> FALSE]

Init ==
    /\ FORMATER = None
    /\ formater \in Names
    /\ registered \in SUBSET Names
    /\ jinja2_installed \in BOOLEAN
    /\ constructed = 0
    /\ logged = {}
    /\ last = NoCall
    /\ pc = [t \in Threads |-> "idle"]
    /\ name = [t \in Threads |-> ""]
    /\ obj = [t \in Threads |-> None]
    /\ returned = [t \in Threads |-> None]
    /\ calls = [t \in Threads |-> 0]

(***************************************************************************)
(* The operations, each call running alone                                 *)
(***************************************************************************)
\* the environment: the option "formater" is set to another name
ConfigSet(n) ==
    /\ n # formater
    /\ formater' = n
    /\ UNCHANGED <<FORMATER, registered, jinja2_installed, constructed, logged, last>>
    /\ UNCHANGED threadVars

\* the environment: a plugin is registered under a name
RegisterPlugin(n) ==
    /\ n \notin registered
    /\ registered' = registered \cup {n}
    /\ UNCHANGED <<FORMATER, formater, jinja2_installed, constructed, logged, last>>
    /\ UNCHANGED threadVars

GetFormater ==
    \E g \in {GetFormaterCall(FORMATER, formater, registered, jinja2_installed,
                              constructed + 1)} :
    /\ FORMATER' = g.cache
    /\ constructed' = IF g.built THEN constructed + 1 ELSE constructed
    /\ logged' = logged \cup g.logs
    /\ last' = [NoCall EXCEPT !.op = "get_formater",
                              !.outcome = IF g.exc = NoExc THEN Return("") ELSE Raise(g.exc),
                              !.inst = g.inst, !.cache0 = FORMATER,
                              !.formater0 = formater, !.registered0 = registered,
                              !.read = g.read, !.lookup = g.lookup]
    /\ UNCHANGED <<formater, registered, jinja2_installed>>
    /\ UNCHANGED threadVars

\* format(fmt, doc, doc_key, additional), the inputs of the call taken from
\* the given sets.  Where the allocator places the objects of the call is
\* not known: a template that prints an address has an unknown outcome.
Format(fmts, docs, doc_keys, additionals) ==
    /\ \E fmt \in fmts, doc \in docs, doc_key \in doc_keys, additional \in additionals :
       \E g \in {GetFormaterCall(FORMATER, formater, registered, jinja2_installed,
                                 constructed + 1)} :
       \E did \in {IF g.exc = NoExc
                   THEN MethodFormat(g.inst, fmt, doc, doc_key, additional,
                                     format_doc_name, NoAddress)
                   ELSE Did(Raise(g.exc), doc, NoExc)} :
           /\ FORMATER' = g.cache
           /\ constructed' = IF g.built THEN constructed + 1 ELSE constructed
           /\ logged' = logged \cup g.logs
           /\ last' = [op |-> "format", fmt |-> fmt, doc |-> doc, doc_key |-> doc_key,
                       additional |-> additional, outcome |-> did.outcome,
                       raised |-> did.raised, docAfter |-> did.doc, inst |-> g.inst, cache0 |-> FORMATER,
                       formater0 |-> formater, registered0 |-> registered,
                       read |-> g.read, lookup |-> g.lookup]
    /\ UNCHANGED <<formater, registered, jinja2_installed>>
    /\ UNCHANGED threadVars

\* the calls made while the environment changes: a template that renders,
\* the sentinel, on a document with and without the field
Next ==
    \/ \E n \in Names : ConfigSet(n)
    \/ \E n \in Names : RegisterPlugin(n)
    \/ GetFormater
    \/ Format({custom_ref, TitleField}, {DocFull, Without(DocFull, title)}, {<<>>}, {EmptyDict})

Spec == Init /\ [][Next]_vars

(***************************************************************************)
(* The formatting calls of a process whose configuration and plugins stay  *)
(* as they are at start, on every input                                    *)
(***************************************************************************)
InitFormat ==
    /\ Init
    /\ registered = Names

NextFormat ==
    Format(Templates,
           {DocFull, Without(DocFull, year), Without(DocFull, title)},
           {<<>>, <<"d">>},
           {EmptyDict,
            <<Item(<<"x">>, PyStr(<<"v">>)), Item(<<"d", "o", "c">>, PyStr(<<"v">>))>>})

SpecFormat == InitFormat /\ [][NextFormat]_vars

(***************************************************************************)
(* get_formater called from several threads: the interpreter may switch    *)
(* threads between any two of its steps; the function takes no lock        *)
(***************************************************************************)
\* a thread calls get_formater()
TCall(t) ==
    /\ pc[t] = "idle"
    /\ calls[t] < MaxCallsPerThread
    /\ calls' = [calls EXCEPT ![t] = @ + 1]
    /\ pc' = [pc EXCEPT ![t] = "test"]
    /\ UNCHANGED <<FORMATER, formater, registered, jinja2_installed, constructed,
                   logged, last, name, obj, returned>>

\* if _FORMATER is None:
TTest(t) ==
    /\ pc[t] = "test"
    /\ pc' = [pc EXCEPT ![t] = IF FORMATER = None THEN "getstring" ELSE "return"]
    /\ UNCHANGED <<FORMATER, formater, registered, jinja2_installed, constructed,
                   logged, last, name, obj, returned, calls>>

\* name = papis.config.getstring("formater")
TGetString(t) ==
    /\ pc[t] = "getstring"
    /\ name' = [name EXCEPT ![t] = formater]
    /\ pc' = [pc EXCEPT ![t] = "plugin"]
    /\ UNCHANGED <<FORMATER, formater, registered, jinja2_installed, constructed,
                   logged, last, obj, returned, calls>>

\* get_extension_manager(...)[name].plugin(): the lookup raises KeyError, or
\* the constructor of the class is entered; Jinja2Formater.__init__ has then
\* still to log when the import of its backend fails
TPlugin(t) ==
    /\ pc[t] = "plugin"
    /\ IF name[t] \notin registered
       THEN /\ pc' = [pc EXCEPT ![t] = "except"]
            /\ UNCHANGED <<constructed, obj>>
       ELSE LET n == PluginNew(name[t], constructed + 1, jinja2_installed) IN
            /\ constructed' = constructed + 1
            /\ obj' = [obj EXCEPT ![t] = n.inst]
            /\ pc' = [pc EXCEPT ![t] = IF n.logs # {} THEN "init" ELSE "store"]
    /\ UNCHANGED <<FORMATER, formater, registered, jinja2_installed, logged, last,
                   name, returned, calls>>

\* logger.exception(...) in Jinja2Formater.__init__, which then returns
TInitLog(t) ==
    /\ pc[t] = "init"
    /\ logged' = logged \cup Jinja2FormaterInit(obj[t].jinja2).logs
    /\ pc' = [pc EXCEPT ![t] = "store"]
    /\ UNCHANGED <<FORMATER, formater, registered, jinja2_installed, constructed,
                   last, name, obj, returned, calls>>

\* except KeyError: logger.error("Invalid formatter: %s", name)
TLogError(t) ==
    /\ pc[t] = "except"
    /\ logged' = logged \cup {LogRecord("error", "Invalid formatter: %s", name[t])}
    /\ pc' = [pc EXCEPT ![t] = "raise"]
    /\ UNCHANGED <<FORMATER, formater, registered, jinja2_installed, constructed,
                   last, name, obj, returned, calls>>

\* raise InvalidFormatterValue(...): the call ends without a formatter
TRaise(t) ==
    /\ pc[t] = "raise"
    /\ returned' = [returned EXCEPT ![t] = None]
    /\ pc' = [pc EXCEPT ![t] = "idle"]
    /\ UNCHANGED <<FORMATER, formater, registered, jinja2_installed, constructed,
                   logged, last, name, obj, calls>>

\* _FORMATER = <the new instance>
TStore(t) ==
    /\ pc[t] = "store"
    /\ FORMATER' = obj[t]
    /\ pc' = [pc EXCEPT ![t] = "debug"]
    /\ UNCHANGED <<formater, registered, jinja2_installed, constructed, logged, last,
                   name, obj, returned, calls>>

\* logger.debug("Getting %s", name)
TDebug(t) ==
    /\ pc[t] = "debug"
    /\ logged' = logged \cup {LogRecord("debug", "Getting %s", name[t])}
    /\ pc' = [pc EXCEPT ![t] = "return"]
    /\ UNCHANGED <<FORMATER, formater, registered, jinja2_installed, constructed,
                   last, name, obj, returned, calls>>

\* return _FORMATER
TReturn(t) ==
    /\ pc[t] = "return"
    /\ returned' = [returned EXCEPT ![t] = FORMATER]
    /\ pc' = [pc EXCEPT ![t] = "idle"]
    /\ UNCHANGED <<FORMATER, formater, registered, jinja2_installed, constructed,
                   logged, last, name, obj, calls>>

NextThreads ==
    \E t \in Threads :
        \/ TCall(t)
        \/ TTest(t)
        \/ TGetString(t)
        \/ TPlugin(t)
        \/ TInitLog(t)
        \/ TLogError(t)
        \/ TRaise(t)
        \/ TStore(t)
        \/ TDebug(t)
        \/ TReturn(t)

SpecThreads == Init /\ [][NextThreads]_vars

(***************************************************************************)
(* The claims                                                              *)
(***************************************************************************)
IsFormat == last.op = "format"
Resolved == last.op # "none" /\ last.outcome.exc.type # "InvalidFormatterValue"

\* C1: format() of PythonFormater and of Jinja2Formater never raises for a
\* failure of template evaluation: it returns a string, which on failure is
\* the description str(exception) of the exception that the evaluation
\* raised.
C1_FailureIsReturned ==
    (/\ IsFormat
     /\ Resolved
     /\ last.inst.cls \in {"PythonFormater", "Jinja2Formater"}
     /\ last.outcome.kind # "unknown")
    => /\ last.outcome.kind = "return"
       /\ last.raised # NoExc => last.outcome.value = StrOfException(last.raised)

\* C2: once the selection is resolved, a later call of get_formater() or
\* format() finds the cached instance: it does not read the option
\* "formater", does not consult the plugin collaborator, constructs nothing
\* and uses the cached instance, whatever the option says by then.
C2_CachedSelectionIsReused ==
    (last.op # "none" /\ last.cache0 # None)
    => /\ ~last.read
       /\ ~last.lookup
       /\ last.inst = last.cache0
       /\ FORMATER = last.cache0
       /\ constructed = 1

\* a format() call made with the cache set while the option names another,
\* registered formatter
C2_Witness ==
    /\ IsFormat
    /\ last.cache0 # None
    /\ last.formater0 \in last.registered0
    /\ PluginClass(last.formater0) # last.cache0.cls

\* C3: under concurrent first calls the plugin constructor is invoked at most
\* once and every thread obtains the same instance.
C3_InitialisedOnce ==
    /\ constructed <= 1
    /\ \A t1, t2 \in Threads :
           (returned[t1] # None /\ returned[t2] # None) => returned[t1] = returned[t2]

\* C4 as claimed: with the configured name unregistered the call raises the
\* typed error, which names the requested value and lists the registered names.
C4_ErrorNamesRequestedValue ==
    (last.op # "none" /\ last.formater0 \notin last.registered0)
    => /\ last.outcome.kind = "raise"
       /\ last.outcome.exc.type = "InvalidFormatterValue"
       /\ last.outcome.exc.names = last.registered0
       /\ last.formater0 \in ExcArgs(last.outcome.exc)

\* C4 as amended: with no formatter cached yet and the configured name
\* unregistered, the call raises the typed error, whose arguments list the
\* registered names; the requested value is named in the logged error
\* record, not in the error.
C4_ErrorListsRegisteredNames ==
    (last.op # "none" /\ last.cache0 = None /\ last.formater0 \notin last.registered0)
    => /\ last.outcome.kind = "raise"
       /\ last.outcome.exc.type = "InvalidFormatterValue"
       /\ last.outcome.exc.names = last.registered0
       /\ last.formater0 \notin ExcArgs(last.outcome.exc)
       /\ LogRecord("error", "Invalid formatter: %s", last.formater0) \in logged

\* format() has raised for an unregistered name while other names are registered
C4_Witness ==
    /\ IsFormat
    /\ last.cache0 = None
    /\ last.formater0 \notin last.registered0
    /\ last.registered0 # {}
    /\ last.outcome.kind = "raise"

\* C6: for a document with author_list, year and title, the sentinel template
\* yields authorToken + yearToken + "_" + titleToken.
C6_CitationKey ==
    (/\ IsFormat
     /\ Resolved
     /\ last.inst.cls = "CustomFormater"
     /\ last.fmt = custom_ref
     /\ {author_list, year, title} \subseteq Keys(last.doc))
    => last.outcome = Return(CitationKey(
                                 Lookup(Lookup(last.doc, author_list).v[1].v, family).v,
                                 Lookup(last.doc, year).v, Lookup(last.doc, title).v))

\* C7: the sentinel template on a document lacking author_list, year or title
\* raises the typed MissingField error.
C7_MissingField ==
    (/\ IsFormat
     /\ Resolved
     /\ last.inst.cls = "CustomFormater"
     /\ last.fmt = custom_ref
     /\ ~({author_list, year, title} \subseteq Keys(last.doc)))
    => /\ last.outcome.kind = "raise"
       /\ last.outcome.exc.type = "MissingField"

\* C8: no format() call changes the document it is given.
C8_DocumentUnchanged ==
    IsFormat => last.docAfter = last.doc

\* C9: constructing Jinja2Formater without its backend does not fail: it
\* logs a diagnostic and yields an instance, and the failure shows at
\* format(), whose result is the description of the missing backend.
C9_ConstructionDefersFailure ==
    /\ (/\ last.op # "none"
        /\ last.cache0 = None
        /\ last.formater0 = "jinja2"
        /\ last.formater0 \in last.registered0
        /\ ~jinja2_installed)
       => /\ last.outcome.exc.type # "ImportError"
          /\ last.inst.cls = "Jinja2Formater"
          /\ ~last.inst.jinja2
          /\ FORMATER = last.inst
          /\ LogRecord("exception", Jinja2NotInstalled, "") \in logged
    /\ (IsFormat /\ last.inst.cls = "Jinja2Formater" /\ ~last.inst.jinja2)
       => last.outcome = Return("'Jinja2Formater' object has no attribute 'jinja2'")

\* the first format() call constructed the formatter without its backend
C9_Witness ==
    /\ IsFormat
    /\ last.cache0 = None
    /\ ~jinja2_installed
    /\ last.inst.cls = "Jinja2Formater"
    /\ last.outcome.kind = "return"

\* C10: a call that fails for an unregistered name leaves _FORMATER unset,
\* and every call made while it is unset reads the option again and looks
\* the name up again; it succeeds and caches once the name is registered.
C10_FailureIsNotCached ==
    /\ (last.op # "none" /\ last.outcome.exc.type = "InvalidFormatterValue")
       => FORMATER = None
    /\ (last.op # "none" /\ last.cache0 = None)
       => /\ last.read
          /\ last.lookup
          /\ last.formater0 \in last.registered0
             => /\ last.outcome.exc.type # "InvalidFormatterValue"
                /\ FORMATER # None
                /\ FORMATER = last.inst
                /\ FORMATER.cls = PluginClass(last.formater0)

\* a call failed for a name that was not registered, and a later call
\* resolved that same name
C10_Witness ==
    /\ last.op # "none"
    /\ last.cache0 = None
    /\ FORMATER # None
    /\ LogRecord("error", "Invalid formatter: %s", last.formater0) \in logged
====
